---- MODULE Spec2Model ----
(***************************************************************************)
(* Model of src/app.py, the Streamlit page "Orbit AI: Automated Reward     *)
(* Orchestrator": one script run per user interaction (main), the call of  *)
(* the hosted model (get_gemini_recommendations) and the extraction of the *)
(* JSON record list from the model's free-form response.                   *)
(*                                                                         *)
(* Text is a sequence of one-character strings, so that substring search,  *)
(* str.split, str.strip and json.loads are computed on characters, as the  *)
(* code computes them.                                                     *)
(***************************************************************************)
EXTENDS Integers, Sequences, FiniteSets, TLC

(***************************************************************************)
(* Bounds of the model.                                                    *)
(***************************************************************************)
\* longest response text, in chunks of ResponseChunks, of the extractor runs
MaxChunks == 5
\* longest list of entitled models genai.list_models() yields
MaxModels == 3
\* most data rows of an uploaded employee file (a header-only file has 0)
MaxRows == 2

(***************************************************************************)
(* Program constants.                                                      *)
(***************************************************************************)
\* rows of mock_employee_db()
MockRows == 5
\* st.number_input("Total Gifting Budget", value=50000, step=5000)
DefaultBudget == 50000
BudgetStep == 5000

None == [t |-> "none"]

Min(S) == CHOOSE x \in S : \A y \in S : x <= y
Max(S) == CHOOSE x \in S : \A y \in S : x >= y

(***************************************************************************)
(* Python str operations used by the response cleaning (lines 156-162).    *)
(***************************************************************************)
\* the grave accent character, which a TLA+ string cannot hold
Tick == "GRAVE"

\* the bare fence marker and the labeled fence marker
Fence == <<Tick, Tick, Tick>>
JsonFence == Fence \o <<"j","s","o","n">>

\* sub occurs in s at position i
IsAt(s, sub, i) ==
    /\ i >= 1
    /\ i + Len(sub) - 1 <= Len(s)
    /\ \A k \in 1..Len(sub) : s[i + k - 1] = sub[k]

\* str.find: the first position >= from where sub occurs in s, 0 if none
Find(s, sub, from) ==
    LET hits == {i \in from..(Len(s) - Len(sub) + 1) : IsAt(s, sub, i)}
    IN  IF hits = {} THEN 0 ELSE Min(hits)

\* the Python test: sub in s
Contains(s, sub) == Find(s, sub, 1) # 0

\* str.split(sep): the pieces between the leftmost non-overlapping
\* occurrences of sep, in order; a text without sep is its only piece
RECURSIVE Split(_, _)
Split(s, sep) ==
    LET i == Find(s, sep, 1)
    IN  IF i = 0 THEN <<s>>
        ELSE <<SubSeq(s, 1, i - 1)>> \o Split(SubSeq(s, i + Len(sep), Len(s)), sep)

\* the whitespace of the model's alphabet that str.strip removes and that
\* the JSON decoder skips between tokens
Whitespace == {" ", "\n", "\t", "\r"}

RECURSIVE LStrip(_)
LStrip(s) == IF s # <<>> /\ Head(s) \in Whitespace THEN LStrip(Tail(s)) ELSE s

RECURSIVE RStrip(_)
RStrip(s) ==
    IF s # <<>> /\ s[Len(s)] \in Whitespace THEN RStrip(SubSeq(s, 1, Len(s) - 1)) ELSE s

\* a plausible slip: only the leading whitespace is removed
StripLeadingOnly(s) == LStrip(s)

\* str.strip()
Strip(s) == RStrip(LStrip(s))

\* lines 156-160: the text cleaned of its code fence
StripFences(text) ==
    IF Contains(text, JsonFence)
    THEN Split(Split(text, JsonFence)[2], Fence)[1]
    ELSE IF Contains(text, Fence)
         THEN Split(Split(text, Fence)[2], Fence)[1]
         ELSE text

(***************************************************************************)
(* json.loads on characters.  A value is [t |-> "arr", items |-> seq],     *)
(* [t |-> "obj", members |-> seq of [k, v]], [t |-> "str", chars |-> seq]  *)
(* or [t |-> "num", n |-> Nat].  The alphabet of the model holds no        *)
(* backslash, sign, fraction, exponent or literal name (true, false,       *)
(* null), so strings have no escapes and numbers are digit runs.           *)
(***************************************************************************)
Digits == {"0","1","2","3","4","5","6","7","8","9"}

DigitVal(c) ==
    CASE c = "0" -> 0 [] c = "1" -> 1 [] c = "2" -> 2 [] c = "3" -> 3 [] c = "4" -> 4
      [] c = "5" -> 5 [] c = "6" -> 6 [] c = "7" -> 7 [] c = "8" -> 8 [] c = "9" -> 9

ParseFail == [ok |-> FALSE, next |-> 0, val |-> None]

RECURSIVE SkipWs(_, _)
SkipWs(s, i) == IF i <= Len(s) /\ s[i] \in Whitespace THEN SkipWs(s, i + 1) ELSE i

\* a string starting at the quote s[i]: up to the next quote
ParseString(s, i) ==
    LET j == Find(s, <<"\"">>, i + 1)
    IN  IF j = 0 THEN ParseFail
        ELSE [ok |-> TRUE, next |-> j + 1,
              val |-> [t |-> "str", chars |-> SubSeq(s, i + 1, j - 1)]]

RECURSIVE DigitRun(_, _, _)
DigitRun(s, i, acc) ==
    IF i <= Len(s) /\ s[i] \in Digits
    THEN DigitRun(s, i + 1, 10 * acc + DigitVal(s[i]))
    ELSE [ok |-> TRUE, next |-> i, val |-> [t |-> "num", n |-> acc]]

\* a number starting at the digit s[i]; a leading 0 is a number of its own
ParseNumber(s, i) ==
    IF s[i] = "0"
    THEN [ok |-> TRUE, next |-> i + 1, val |-> [t |-> "num", n |-> 0]]
    ELSE DigitRun(s, i, 0)

RECURSIVE ParseValue(_, _)
RECURSIVE ParseElements(_, _, _)
RECURSIVE ParseMembers(_, _, _)

\* the elements of an array from s[i], the first element's start, on
ParseElements(s, i, acc) ==
    LET e == ParseValue(s, i)
        k == SkipWs(s, e.next)
    IN  IF ~e.ok \/ k > Len(s) THEN ParseFail
        ELSE IF s[k] = "]"
             THEN [ok |-> TRUE, next |-> k + 1,
                   val |-> [t |-> "arr", items |-> Append(acc, e.val)]]
             ELSE IF s[k] = ","
                  THEN ParseElements(s, SkipWs(s, k + 1), Append(acc, e.val))
                  ELSE ParseFail

\* the members of an object from s[i], the first key's quote, on
ParseMembers(s, i, acc) ==
    IF i > Len(s) \/ s[i] # "\"" THEN ParseFail
    ELSE
    LET key == ParseString(s, i)
        c   == SkipWs(s, key.next)
    IN  IF ~key.ok \/ c > Len(s) \/ s[c] # ":" THEN ParseFail
        ELSE
        LET v == ParseValue(s, SkipWs(s, c + 1))
            k == SkipWs(s, v.next)
            m == Append(acc, [k |-> key.val.chars, v |-> v.val])
        IN  IF ~v.ok \/ k > Len(s) THEN ParseFail
            ELSE IF s[k] = "}"
                 THEN [ok |-> TRUE, next |-> k + 1, val |-> [t |-> "obj", members |-> m]]
                 ELSE IF s[k] = ","
                      THEN ParseMembers(s, SkipWs(s, k + 1), m)
                      ELSE ParseFail

\* JSONDecoder.raw_decode: the value starting at s[i]
ParseValue(s, i) ==
    IF i > Len(s) THEN ParseFail
    ELSE IF s[i] = "["
         THEN LET j == SkipWs(s, i + 1)
              IN  IF j <= Len(s) /\ s[j] = "]"
                  THEN [ok |-> TRUE, next |-> j + 1, val |-> [t |-> "arr", items |-> <<>>]]
                  ELSE ParseElements(s, j, <<>>)
    ELSE IF s[i] = "{"
         THEN LET j == SkipWs(s, i + 1)
              IN  IF j <= Len(s) /\ s[j] = "}"
                  THEN [ok |-> TRUE, next |-> j + 1, val |-> [t |-> "obj", members |-> <<>>]]
                  ELSE ParseMembers(s, j, <<>>)
    ELSE IF s[i] = "\"" THEN ParseString(s, i)
    ELSE IF s[i] \in Digits THEN ParseNumber(s, i)
    ELSE ParseFail

\* the text is one JSON value between optional whitespace
IsJson(s) ==
    LET r == ParseValue(s, SkipWs(s, 1))
    IN  r.ok /\ SkipWs(s, r.next) = Len(s) + 1

\* a plausible slip: a text that does not parse is repaired by cutting it
\* back to the longest prefix that closes to a list with "]"
JsonLoadsRepairing(s) ==
    LET closed(k) == SubSeq(s, 1, k) \o <<"]">>
        cuts == {k \in 1..Len(s) : s[k] \in {"}", "]"} /\ IsJson(closed(k))}
    IN  IF IsJson(s)
        THEN [ok |-> TRUE, val |-> ParseValue(s, SkipWs(s, 1)).val]
        ELSE IF cuts = {} THEN [ok |-> FALSE, val |-> None]
             ELSE [ok |-> TRUE, val |-> ParseValue(closed(Max(cuts)), 1).val]

\* json.loads(s): the value, or ok = FALSE where it raises JSONDecodeError
JsonLoads(s) ==
    LET r == ParseValue(s, SkipWs(s, 1))
    IN  IF r.ok /\ SkipWs(s, r.next) = Len(s) + 1
        THEN [ok |-> TRUE, val |-> r.val]
        ELSE [ok |-> FALSE, val |-> None]

(***************************************************************************)
(* pandas.DataFrame(data) as far as main reads it: the rows, the column    *)
(* names and, from them, .empty, a column's sum and a column's mode.       *)
(***************************************************************************)
ColAmount == <<"A","l","l","o","c","a","t","e","d","_","A","m","o","u","n","t">>
ColEvent == <<"E","v","e","n","t">>

\* pd.DataFrame(): what get_gemini_recommendations returns on a failure
EmptyFrame == [rows |-> <<>>, columns |-> {}]

Keys(obj) == {obj.members[i].k : i \in 1..Len(obj.members)}
Has(obj, col) == col \in Keys(obj)
\* the value a dict holds under a key: the last member with that key
Lookup(obj, col) ==
    obj.members[Max({i \in 1..Len(obj.members) : obj.members[i].k = col})].v

\* pd.DataFrame(data): ok = FALSE where the constructor raises ValueError (a
\* scalar, or an object of scalars).  The responses of the model hold lists
\* of objects only; a list of other items gets the positional column "0".
DataFrame(val) ==
    IF val.t = "arr"
    THEN IF \A i \in 1..Len(val.items) : val.items[i].t = "obj"
         THEN [ok |-> TRUE,
               frame |-> [rows |-> val.items,
                          columns |-> UNION {Keys(val.items[i]) : i \in 1..Len(val.items)}]]
         ELSE [ok |-> TRUE, frame |-> [rows |-> val.items, columns |-> {<<"0">>}]]
    ELSE IF val.t = "obj" /\ val.members = <<>>
         THEN [ok |-> TRUE, frame |-> EmptyFrame]
         ELSE [ok |-> FALSE, frame |-> EmptyFrame]

\* DataFrame.empty: no rows or no columns
Empty(df) == df.rows = <<>> \/ df.columns = {}

\* the values of a column, rows without the key (NaN) left out
Column(df, col) ==
    LET present == SelectSeq(df.rows, LAMBDA r : Has(r, col))
    IN  [i \in 1..Len(present) |-> Lookup(present[i], col)]

RECURSIVE SumNums(_)
SumNums(vals) == IF vals = <<>> THEN 0 ELSE Head(vals).n + SumNums(Tail(vals))

\* Series.mode()[0]: a most frequent value.  pandas sorts the modes; the
\* records of the model carry one Event value, so the mode is unique.
Mode(vals) ==
    LET count(v) == Cardinality({i \in 1..Len(vals) : vals[i] = v})
    IN  CHOOSE v \in {vals[i] : i \in 1..Len(vals)} :
            \A j \in 1..Len(vals) : count(vals[j]) <= count(v)

(***************************************************************************)
(* What the collaborators can hand to the program.                         *)
(***************************************************************************)
FlashTier == <<"g","e","m","i","n","i","-","1",".","5","-","f","l","a","s","h">>

NameFlash == <<"m","o","d","e","l","s","/","g","e","m","i","n","i","-","1",".","5","-","f","l","a","s","h">>
NamePro == <<"m","o","d","e","l","s","/","g","e","m","i","n","i","-","1",".","5","-","p","r","o">>
NameUltra == <<"m","o","d","e","l","s","/","g","e","m","i","n","i","-","1",".","0","-","u","l","t","r","a">>
NameBison == <<"m","o","d","e","l","s","/","t","e","x","t","-","b","i","s","o","n","-","0","0","1">>
NameEmbedding == <<"m","o","d","e","l","s","/","e","m","b","e","d","d","i","n","g","-","0","0","1">>

\* the models genai.list_models() can yield: name and whether
\* 'generateContent' is among supported_generation_methods
Catalog ==
    {[name |-> NameFlash, generateContent |-> TRUE],
     [name |-> NamePro, generateContent |-> TRUE],
     [name |-> NameUltra, generateContent |-> TRUE],
     [name |-> NameBison, generateContent |-> TRUE],
     [name |-> NameEmbedding, generateContent |-> FALSE]}

ModelListings == UNION {[1..n -> Catalog] : n \in 0..MaxModels}

\* one record of the requested output, and lists of it
Record == <<"{","\"","A","l","l","o","c","a","t","e","d","_","A","m","o","u","n","t","\"",":","1",",","\"","E","v","e","n","t","\"",":","\"","D","\"","}">>
NoRecords == <<"[","]">>
OneRecord == <<"[">> \o Record \o <<"]">>
TwoRecords == <<"[">> \o Record \o <<",">> \o Record \o <<"]">>
\* a well-formed list whose records lack the columns main reads
OtherRecord == <<"[","{","\"","a","\"",":","1","}","]">>

Labeled(body) == JsonFence \o <<"\n">> \o body \o <<"\n">> \o Fence
Bare(body) == Fence \o body \o Fence

\* response.text of the runs of the page
PageResponses ==
    {OneRecord, Labeled(TwoRecords), Bare(OneRecord), NoRecords, Labeled(NoRecords),
     SubSeq(Labeled(TwoRecords), 1, 60), OtherRecord, <<"x">>}

\* response.text of the extractor runs: every text of at most MaxChunks
\* chunks, and every prefix of a well-formed response (a response cut short)
ResponseChunks == {Fence, <<"j","s","o","n">>, <<" ">>, <<"x">>, NoRecords, OneRecord}

RECURSIVE Concat(_)
Concat(cs) == IF cs = <<>> THEN <<>> ELSE Head(cs) \o Concat(Tail(cs))

ChunkTexts == {Concat(cs) : cs \in UNION {[1..n -> ResponseChunks] : n \in 0..MaxChunks}}

FullResponses == {TwoRecords, Labeled(TwoRecords), Bare(TwoRecords)}
CutTexts == UNION {{SubSeq(w, 1, k) : k \in 0..Len(w)} : w \in FullResponses}

ExtractorResponses == ChunkTexts \cup CutTexts

(***************************************************************************)
(* State.                                                                   *)
(***************************************************************************)
VARIABLES
    pc,                \* position of the script run; "idle" between runs
    clicked,           \* the button that reads True in this run: "run", "confirm", "none"
    uploaded_file,     \* the file uploader's value
    total_budget,      \* the number input's value
    employees,         \* len(employees) of this run
    prompt_built,      \* the prompt of this run is assembled
    available_models,  \* local of get_gemini_recommendations
    model_name,        \* local of get_gemini_recommendations
    response,          \* response.text
    loads_arg,         \* text.strip(), the argument of json.loads
    result_df,         \* what get_gemini_recommendations returned
    display,           \* the page elements this script run has emitted
    prev_results,      \* the metrics and table the previous script run left on the page
    list_calls,        \* genai.list_models() calls of this run
    generate_calls,    \* model.generate_content() calls of this run
    loads_calls        \* json.loads() calls of this run

vars == <<pc, clicked, uploaded_file, total_budget, employees, prompt_built,
          available_models, model_name, response, loads_arg, result_df, display,
          prev_results, list_calls, generate_calls, loads_calls>>

inputs == <<uploaded_file, total_budget>>
locals == <<available_models, model_name, response, loads_arg, result_df>>
calls == <<list_calls, generate_calls, loads_calls>>

NoFile == [present |-> FALSE, rows |-> 0]
CsvFile(n) == [present |-> TRUE, rows |-> n]

\* a page with nothing on it
BlankPage ==
    [info |-> FALSE, errors |-> <<>>, metrics |-> <<>>, table |-> <<>>,
     confirm_button |-> FALSE, balloons |-> FALSE, success |-> <<>>,
     exception |-> "none"]

Init ==
    /\ pc = "idle"
    /\ clicked = "none"
    /\ uploaded_file = NoFile
    /\ total_budget = DefaultBudget
    /\ employees = MockRows
    /\ prompt_built = FALSE
    /\ available_models = <<>>
    /\ model_name = <<>>
    /\ response = <<>>
    /\ loads_arg = <<>>
    /\ result_df = EmptyFrame
    /\ display = [BlankPage EXCEPT !.info = TRUE]
    /\ prev_results = <<<<>>, <<>>>>
    /\ list_calls = 0
    /\ generate_calls = 0
    /\ loads_calls = 0

(***************************************************************************)
(* A script run.  Streamlit executes the script from the top on every     *)
(* interaction with a widget; the page then holds what that run emits.     *)
(***************************************************************************)
Budgets == {DefaultBudget, DefaultBudget + BudgetStep}
Files == {NoFile} \cup {CsvFile(n) : n \in 0..MaxRows}

\* a plausible slip: the results of the previous run are kept on the page
StartRunKeepingResults(c, file, budget) ==
    /\ pc = "idle"
    /\ pc' = "button"
    /\ clicked' = c
    /\ uploaded_file' = file
    /\ total_budget' = budget
    /\ employees' = IF file.present THEN file.rows ELSE MockRows
    /\ prompt_built' = FALSE
    /\ available_models' = <<>>
    /\ model_name' = <<>>
    /\ response' = <<>>
    /\ loads_arg' = <<>>
    /\ result_df' = EmptyFrame
    /\ prev_results' = <<display.metrics, display.table>>
    /\ display' = [BlankPage EXCEPT !.info = ~file.present,
                                    !.metrics = display.metrics,
                                    !.table = display.table,
                                    !.confirm_button = display.confirm_button]
    /\ list_calls' = 0
    /\ generate_calls' = 0
    /\ loads_calls' = 0

\* lines 171-203: the script starts over with the widgets' values, on a
\* fresh page; the sidebar reads the roster (the uploaded file, else the
\* mock table, announced by "Using Mock Data")
StartRun(c, file, budget) ==
    /\ pc = "idle"
    /\ pc' = "button"
    /\ clicked' = c
    /\ uploaded_file' = file
    /\ total_budget' = budget
    /\ employees' = IF file.present THEN file.rows ELSE MockRows
    /\ prompt_built' = FALSE
    /\ available_models' = <<>>
    /\ model_name' = <<>>
    /\ response' = <<>>
    /\ loads_arg' = <<>>
    /\ result_df' = EmptyFrame
    /\ prev_results' = <<display.metrics, display.table>>
    /\ display' = [BlankPage EXCEPT !.info = ~file.present]
    /\ list_calls' = 0
    /\ generate_calls' = 0
    /\ loads_calls' = 0

\* the user uploads, replaces or removes the employee file
Upload == \E f \in Files \ {uploaded_file} : StartRun("none", f, total_budget)

\* the user changes the total budget
SetBudget == \E b \in Budgets \ {total_budget} : StartRun("none", uploaded_file, b)

\* the user presses "Run AI Allocation Model"
ClickRun ==
    /\ pc = "idle"
    /\ StartRun("run", uploaded_file, total_budget)

\* the user presses "One-Click Implementation", which is on the page
ClickConfirm ==
    /\ display.confirm_button
    /\ StartRun("confirm", uploaded_file, total_budget)

\* an exception nothing catches: Streamlit shows it and the run is over
Raise(exc) ==
    /\ display' = [display EXCEPT !.exception = exc]
    /\ pc' = "idle"

\* line 206: the body runs only in the run the button was pressed for
RunButton ==
    /\ pc = "button"
    /\ pc' = IF clicked = "run" THEN "avg_budget" ELSE "idle"
    /\ UNCHANGED <<clicked, inputs, employees, prompt_built, locals, display,
                   prev_results, calls>>

\* a plausible slip: an empty roster skips the division
AvgBudgetGuarded ==
    /\ pc = "avg_budget"
    /\ pc' = "list_models"
    /\ prompt_built' = TRUE
    /\ UNCHANGED <<clicked, inputs, employees, locals, display, prev_results, calls>>

\* lines 89-136: total_budget / len(employees_df), then the prompt
AvgBudget ==
    /\ pc = "avg_budget"
    /\ IF employees = 0
       THEN /\ Raise("ZeroDivisionError")
            /\ UNCHANGED prompt_built
       ELSE /\ pc' = "list_models"
            /\ prompt_built' = TRUE
            /\ UNCHANGED display
    /\ UNCHANGED <<clicked, inputs, employees, locals, prev_results, calls>>

\* the failure return of lines 144-146 and 165-167: st.error, pd.DataFrame()
Fail(kind, exc) ==
    /\ display' = [display EXCEPT !.errors = Append(@, [kind |-> kind, exc |-> exc])]
    /\ result_df' = EmptyFrame
    /\ pc' = "render"

\* lines 139-146: the entitled models that support generateContent
ListModels ==
    /\ pc = "list_models"
    /\ list_calls' = list_calls + 1
    /\ \/ /\ Fail("Connection Error", "Exception")
          /\ UNCHANGED available_models
       \/ \E listing \in ModelListings :
            /\ available_models' =
                   LET kept == SelectSeq(listing, LAMBDA m : m.generateContent)
                   IN  [i \in 1..Len(kept) |-> kept[i].name]
            /\ pc' = "select"
            /\ UNCHANGED <<display, result_df>>
    /\ UNCHANGED <<clicked, inputs, employees, prompt_built, model_name, response,
                   loads_arg, prev_results, generate_calls, loads_calls>>

\* line 149: next((m for m in available_models if 'gemini-1.5-flash' in m),
\* available_models[0]) on a list that is not empty
PickModel(models) ==
    LET flash == {i \in 1..Len(models) : Contains(models[i], FlashTier)}
    IN  IF flash # {} THEN models[Min(flash)] ELSE models[1]

\* line 149: the default available_models[0] is evaluated first and raises
\* IndexError on an empty list
SelectModel ==
    /\ pc = "select"
    /\ IF available_models = <<>>
       THEN /\ Raise("IndexError")
            /\ UNCHANGED model_name
       ELSE /\ model_name' = PickModel(available_models)
            /\ pc' = "generate"
            /\ UNCHANGED display
    /\ UNCHANGED <<clicked, inputs, employees, prompt_built, available_models, response,
                   loads_arg, result_df, prev_results, calls>>

\* a plausible slip: a failed generation is tried again
GenerateRetrying ==
    /\ pc = "generate"
    /\ generate_calls < 3
    /\ generate_calls' = generate_calls + 1
    /\ \/ UNCHANGED <<pc, display, result_df, response, available_models, model_name>>
       \/ \E t \in PageResponses :
            /\ response' = t
            /\ pc' = "extract"
            /\ available_models' = <<>>
            /\ model_name' = <<>>
            /\ UNCHANGED <<display, result_df>>
    /\ UNCHANGED <<clicked, inputs, employees, prompt_built, loads_arg, prev_results,
                   list_calls, loads_calls>>

\* lines 152-156: one generate_content call on the model of model_name; it
\* raises, or response.text is read.  available_models and model_name are
\* not read again.
Generate ==
    /\ pc = "generate"
    /\ generate_calls' = generate_calls + 1
    /\ available_models' = <<>>
    /\ model_name' = <<>>
    /\ \/ /\ Fail("AI Processing Error", "Exception")
          /\ UNCHANGED response
       \/ \E t \in PageResponses :
            /\ response' = t
            /\ pc' = "extract"
            /\ UNCHANGED <<display, result_df>>
    /\ UNCHANGED <<clicked, inputs, employees, prompt_built, loads_arg, prev_results,
                   list_calls, loads_calls>>

\* lines 156-167: fence stripping, strip, json.loads, pd.DataFrame; either
\* exception is reported and answered with pd.DataFrame()
Extract ==
    /\ pc = "extract"
    /\ loads_arg' = Strip(StripFences(response))
    /\ loads_calls' = loads_calls + 1
    /\ LET data == JsonLoads(loads_arg')
       IN  IF ~data.ok
           THEN Fail("AI Processing Error", "JSONDecodeError")
           ELSE IF ~DataFrame(data.val).ok
                THEN Fail("AI Processing Error", "ValueError")
                ELSE /\ result_df' = DataFrame(data.val).frame
                     /\ pc' = "render"
                     /\ UNCHANGED display
    /\ UNCHANGED <<clicked, inputs, employees, prompt_built, available_models, model_name,
                   response, prev_results, list_calls, generate_calls>>

\* lines 212-243: metrics, table and the confirmation button for a result
\* that is not empty; the acknowledgment in a run the confirmation button
\* was pressed for
Render ==
    /\ pc = "render"
    /\ IF Empty(result_df)
       THEN /\ pc' = "idle"
            /\ UNCHANGED display
       ELSE IF ColAmount \notin result_df.columns
       THEN Raise("KeyError")
       ELSE IF \E i \in 1..Len(Column(result_df, ColAmount)) :
                   Column(result_df, ColAmount)[i].t # "num"
       THEN Raise("TypeError")
       ELSE
       LET total_used == SumNums(Column(result_df, ColAmount))
           first3 == <<total_budget, total_used, total_budget - total_used,
                       Len(result_df.rows)>>
       IN  IF ColEvent \notin result_df.columns
           THEN /\ display' = [display EXCEPT !.metrics = first3, !.exception = "KeyError"]
                /\ pc' = "idle"
           ELSE
           LET strategy_used == Mode(Column(result_df, ColEvent))
               acked == clicked = "confirm"
           IN  /\ display' =
                     [display EXCEPT
                        !.metrics = Append(first3, strategy_used),
                        !.table = <<result_df>>,
                        !.confirm_button = TRUE,
                        !.balloons = acked,
                        !.success = IF acked
                                    THEN <<[count |-> Len(result_df.rows),
                                            event |-> strategy_used]>>
                                    ELSE <<>>]
               /\ pc' = "idle"
    /\ UNCHANGED <<clicked, inputs, employees, prompt_built, locals, prev_results, calls>>

Next ==
    \/ Upload
    \/ SetBudget
    \/ ClickRun
    \/ ClickConfirm
    \/ RunButton
    \/ AvgBudget
    \/ ListModels
    \/ SelectModel
    \/ Generate
    \/ Extract
    \/ Render

Spec == Init /\ [][Next]_vars

(***************************************************************************)
(* The extractor on its own: get_gemini_recommendations has just read      *)
(* response.text, any text of ExtractorResponses, in a run on the mock     *)
(* roster.                                                                 *)
(***************************************************************************)
InitExtractor ==
    /\ pc = "extract"
    /\ clicked = "run"
    /\ uploaded_file = NoFile
    /\ total_budget = DefaultBudget
    /\ employees = MockRows
    /\ prompt_built = TRUE
    /\ available_models = <<NameFlash>>
    /\ model_name = NameFlash
    /\ response \in ExtractorResponses
    /\ loads_arg = <<>>
    /\ result_df = EmptyFrame
    /\ display = [BlankPage EXCEPT !.info = TRUE]
    /\ prev_results = <<<<>>, <<>>>>
    /\ list_calls = 1
    /\ generate_calls = 1
    /\ loads_calls = 0

NextExtractor == Extract \/ Render

SpecExtractor == InitExtractor /\ [][NextExtractor]_vars
(***************************************************************************)
(* Properties.                                                             *)
(***************************************************************************)
Reported(kind) == \E i \in 1..Len(display.errors) : display.errors[i].kind = kind

\* the run the run button was pressed for is over
RunOver == pc = "idle" /\ clicked = "run"

\* json.loads has returned the empty list
ParsedNoRecords ==
    /\ pc = "render"
    /\ loads_calls = 1
    /\ display.errors = <<>>
    /\ JsonLoads(loads_arg).ok
    /\ JsonLoads(loads_arg).val.t = "arr"
    /\ JsonLoads(loads_arg).val.items = <<>>

\* C1: the value get_gemini_recommendations returns for a response that is a
\* valid list of zero records differs from the value it returns on a failure
\* (pd.DataFrame(), EmptyFrame).
C1_ZeroRecordsDistinctFromFailure == ParsedNoRecords => result_df # EmptyFrame

\* the text between the first fence marker of t and the next one
HasFencedBlock(t) ==
    Find(t, Fence, 1) # 0 /\ Find(t, Fence, Find(t, Fence, 1) + Len(Fence)) # 0
FirstBlock(t) ==
    LET open == Find(t, Fence, 1) + Len(Fence)
    IN  SubSeq(t, open, Find(t, Fence, open) - 1)
IsJsonList(s) == JsonLoads(Strip(s)).ok /\ JsonLoads(Strip(s)).val.t = "arr"

\* the response is prefix, fence, JSON list, fence, suffix, the first fence
\* being the opening marker
FencedList ==
    /\ loads_calls = 1
    /\ HasFencedBlock(response)
    /\ IsJsonList(FirstBlock(response))

\* C2: for a response prefix + fence + JSON list + fence + suffix, the parser
\* is handed exactly the JSON list (up to surrounding whitespace), whatever
\* the suffix holds, a labeled fence marker included.
C2_FirstFencedListRecovered == FencedList => loads_arg = Strip(FirstBlock(response))

\* C3 as stated: for a response without a fence marker, the parser is handed
\* the raw response text, unchanged character for character.
C3_UnfencedTextUnchanged ==
    (loads_calls = 1 /\ ~Contains(response, Fence)) => loads_arg = response

\* t is raw without its leading and trailing whitespace
IsTrimOf(t, raw) ==
    /\ t # <<>> => (t[1] \notin Whitespace /\ t[Len(t)] \notin Whitespace)
    /\ \E a \in 0..Len(raw) :
         /\ a + Len(t) <= Len(raw)
         /\ SubSeq(raw, a + 1, a + Len(t)) = t
         /\ \A k \in 1..a : raw[k] \in Whitespace
         /\ \A k \in (a + Len(t) + 1)..Len(raw) : raw[k] \in Whitespace

\* C3 as amended: for a response without a fence marker, the parser is handed
\* the raw response text with its leading and trailing whitespace removed,
\* and otherwise unchanged.
C3_UnfencedTextTrimmed ==
    (loads_calls = 1 /\ ~Contains(response, Fence)) => IsTrimOf(loads_arg, response)

\* an unfenced response with whitespace around it has been cleaned
C3_Witness ==
    /\ loads_calls = 1
    /\ ~Contains(response, Fence)
    /\ response # <<>>
    /\ response[1] \in Whitespace
    /\ response[Len(response)] \in Whitespace
    /\ loads_arg # <<>>

\* the preference order C4 states: the flash tier, then the pro tier, then
\* the family name, then the first entitled model
ProTier == <<"p","r","o">>
FamilyName == <<"g","e","m","i","n","i">>
FirstWith(models, sub) ==
    models[Min({i \in 1..Len(models) : Contains(models[i], sub)})]
Offers(models, sub) == \E i \in 1..Len(models) : Contains(models[i], sub)
PolicyPick(models) ==
    IF Offers(models, FlashTier) THEN FirstWith(models, FlashTier)
    ELSE IF Offers(models, ProTier) THEN FirstWith(models, ProTier)
    ELSE IF Offers(models, FamilyName) THEN FirstWith(models, FamilyName)
    ELSE models[1]

\* C4: for every list of entitled models that is not empty, the picked model
\* is the first of the flash tier, else the first of the pro tier, else the
\* first whose name holds the family name, else the first entry.
C4_PickFollowsFourTiers == pc = "generate" => model_name = PolicyPick(available_models)

\* the run ended at the model selection: models were listed without an
\* error, none supports generation, and nothing was generated
NoEntitledModel ==
    /\ RunOver
    /\ list_calls = 1
    /\ ~Reported("Connection Error")
    /\ prompt_built
    /\ available_models = <<>>
    /\ generate_calls = 0

\* C5: when the listing succeeds and no entitled model supports generation,
\* the run fails in a controlled way: an error message is reported, nothing
\* is generated and no exception is left unhandled.
C5_NoModelIsReported ==
    NoEntitledModel => (display.errors # <<>> /\ display.exception = "none")

\* a run that reported an enumeration, generation or parse error is over
FailedRun == RunOver /\ display.errors # <<>>

C7_ConfirmIsAcknowledged ==
    (pc = "idle" /\ clicked = "confirm") => display.success # <<>>

\* C8: a run makes at most one generation call and at most one parse, the
\* parse after the generation, and no call after a failure; the function
\* returns the parsed result or the failure result.
C8_OneCallOneParse ==
    /\ generate_calls <= 1
    /\ loads_calls <= generate_calls
    /\ display.errors # <<>> => pc \in {"render", "idle"}
    /\ pc = "render" =>
         \/ Len(display.errors) = 1 /\ result_df = EmptyFrame
         \/ /\ display.errors = <<>>
            /\ loads_calls = 1
            /\ JsonLoads(loads_arg).ok
            /\ result_df = DataFrame(JsonLoads(loads_arg).val).frame

\* a run has ended after its one generation call failed or did not parse
C8_Witness ==
    /\ RunOver
    /\ generate_calls = 1
    /\ Reported("AI Processing Error")

\* s is a list of records cut short: a proper prefix of a well-formed list
\* of records, which is no JSON text itself
CutShort(s) ==
    /\ s # <<>>
    /\ \E w \in {OneRecord, TwoRecords} : Len(s) < Len(w) /\ SubSeq(w, 1, Len(s)) = s

\* C9: a response whose fence-stripped text is a record list cut short is
\* reported as a processing error and answered with the failure result,
\* never with the records before the cut.
C9_CutListFails ==
    (loads_calls = 1 /\ CutShort(loads_arg)) =>
        /\ Reported("AI Processing Error")
        /\ result_df = EmptyFrame
        /\ display.table = <<>>

\* a fenced response cut inside its second record has been extracted
C9_Witness ==
    /\ loads_calls = 1
    /\ Contains(response, Fence)
    /\ CutShort(loads_arg)
    /\ Len(loads_arg) > Len(OneRecord)
    /\ pc = "idle"

\* the uploaded file has a header and no rows
EmptyRoster == uploaded_file.present /\ uploaded_file.rows = 0

\* C10: a run on a roster of zero rows ends with an unhandled
\* ZeroDivisionError before the prompt is built and before any listing or
\* generation call, and reports no error message of its own.
C10_EmptyRosterDividesByZero ==
    EmptyRoster =>
        /\ pc \in {"idle", "button", "avg_budget"}
        /\ ~prompt_built
        /\ list_calls = 0
        /\ generate_calls = 0
        /\ display.errors = <<>>
        /\ RunOver => display.exception = "ZeroDivisionError"

\* a run on an empty roster has ended with the division by zero
C10_Witness == EmptyRoster /\ RunOver /\ display.exception = "ZeroDivisionError"
====
